---- MODULE Spec2Model ----
(***************************************************************************)
(* A model of roots.cpp: the recovery volume table, the path resolver, the *)
(* mount manager, the format engine and the install-mount orchestrator.    *)
(*                                                                         *)
(* Paths, labels and key locations are sequences of one-character strings, *)
(* so that find_last_of, substr, memcmp on a prefix and key_loc[0] are     *)
(* computed as the code computes them.  A volume is referred to by its     *)
(* index in the table (the code's Volume pointer), 0 standing for nullptr. *)
(***************************************************************************)
EXTENDS Integers, Sequences, FiniteSets, TLC

VARIABLES
  fstab,     \* the volume table: NoFstab (nullptr) or [set |-> TRUE, recs |-> the Volume records]
  mounted,   \* the OS mount table: the set of mount points currently mounted
  last,      \* the observation of the last operation: arguments, result, OS calls
  rpath,     \* volume_for_path, run step by step: the argument
  rstr,      \*   the candidate prefix (str)
  rsig,      \*   the probe during this run: block device -> signature
  rpc,       \*   "idle", "loop" (at the head of the while loop) or "done"
  rres,      \*   the returned volume (0: nullptr)
  rlookups   \*   the number of table lookups made so far

vars == <<fstab, mounted, last, rpath, rstr, rsig, rpc, rres, rlookups>>

(***************************************************************************)
(* Bounds of the model.                                                    *)
(***************************************************************************)
MaxVolumes == 2      \* records the fstab collaborator returns (main specification)
MaxResolveVolumes == 2  \* records of the table in the resolver specification
MaxPathLen == 5      \* characters of a path given to the resolver specification

(***************************************************************************)
(* Strings.                                                                *)
(***************************************************************************)
NULL == <<"NULL">>          \* a null char*: no sequence of characters equals it
NoFstab == [set |-> FALSE, recs |-> <<>>]    \* fstab == nullptr
Root == <<"/">>
Tmp == <<"/", "t", "m", "p">>
Cache == <<"/", "c", "a", "c", "h", "e">>
Data == <<"/", "d", "a", "t", "a">>
Footer == <<"f", "o", "o", "t", "e", "r">>
StoragePrefix == <<"/", "s", "t", "o", "r", "a", "g", "e", "/">>

\* std::string::find_last_of('/'): the last position (1-based) holding '/',
\* 0 for npos.
find_last_of_slash(str) ==
  LET S == {i \in 1..Len(str) : str[i] = "/"}
  IN IF S = {} THEN 0 ELSE CHOOSE i \in S : \A j \in S : j <= i

\* A plausible slip: the case of the leading '/' (slash == 0 in the code) is
\* not set apart, so the candidate after "/a" is the empty string.
RootlessTrimPrefix(str) ==
  LET slash == find_last_of_slash(str)
  IN IF slash = 0 THEN NULL ELSE SubSeq(str, 1, slash - 1)

\* A plausible slip: the '/' found is kept (substr(0, slash + 1)), so a
\* candidate that ends in '/' is never shortened.
KeepSlash_TrimPrefix(str) ==
  LET slash == find_last_of_slash(str)
  IN IF slash = 0 THEN NULL
     ELSE IF slash = 1 THEN Root
     ELSE SubSeq(str, 1, slash)

\* The prefix-reduction step of volume_for_path: the next candidate, or NULL
\* when the path holds no '/'.  (slash is 1-based here: the code's slash == 0
\* is position 1, and substr(0, slash) keeps the characters before it.)
TrimPrefix(str) ==
  LET slash == find_last_of_slash(str)
  IN IF slash = 0 THEN NULL
     ELSE IF slash = 1 THEN Root
     ELSE SubSeq(str, 1, slash - 1)

(***************************************************************************)
(* The volume table and its lookups.                                       *)
(***************************************************************************)
Volume(mp, fs, dev, len, key, lbl, vold) ==
  [mount_point |-> mp, fs_type |-> fs, blk_device |-> dev, length |-> len,
   key_loc |-> key, label |-> lbl, voldmanaged |-> vold]

\* fs_mgr_get_entry_for_mount_point_after(start, fstab, path): the first
\* record after start whose mount point equals path exactly, 0 if none.
fs_mgr_get_entry_for_mount_point_after(start, tab, path) ==
  LET S == {i \in (start + 1)..Len(tab) : tab[i].mount_point = path}
  IN IF S = {} THEN 0 ELSE CHOOSE i \in S : \A j \in S : i <= j

fs_mgr_get_entry_for_mount_point(tab, path) ==
  fs_mgr_get_entry_for_mount_point_after(0, tab, path)

\* The types for which the on-disk signature is probed.
DetectsFs(fs) == fs \in {"ext4", "f2fs", "vfat"}

\* The while loop of get_entry_for_mount_point_detect_fs: from rec, the first
\* record for path whose type is the detected one, 0 if none.
RECURSIVE DetectLoop(_, _, _, _)
DetectLoop(rec, tab, path, detected) ==
  IF rec # 0 /\ tab[rec].fs_type # detected
  THEN DetectLoop(fs_mgr_get_entry_for_mount_point_after(rec, tab, path),
                  tab, path, detected)
  ELSE rec

\* A plausible slip: the loop's result is returned without the fallback to the
\* originally fetched record.
NoFallback_get_entry_for_mount_point_detect_fs(tab, blkid, path) ==
  LET rec == fs_mgr_get_entry_for_mount_point(tab, path)
  IN IF rec = 0 THEN 0
     ELSE IF DetectsFs(tab[rec].fs_type)
     THEN LET detected == blkid[tab[rec].blk_device]
          IN IF detected = "none" THEN rec
             ELSE DetectLoop(rec, tab, path, detected)
     ELSE rec

\* blkid is the probe: a function from block device to the detected
\* signature, "none" when blkid_get_tag_value returns nullptr.
get_entry_for_mount_point_detect_fs(tab, blkid, path) ==
  LET rec == fs_mgr_get_entry_for_mount_point(tab, path)
  IN IF rec = 0 THEN 0
     ELSE IF DetectsFs(tab[rec].fs_type)
     THEN LET detected == blkid[tab[rec].blk_device]
          IN IF detected = "none" THEN rec
             ELSE LET found == DetectLoop(rec, tab, path, detected)
                  IN IF found = 0 THEN rec ELSE found
     ELSE rec

\* volume_for_path, as a function of its argument.
RECURSIVE VolumeForPathFrom(_, _, _)
VolumeForPathFrom(tab, blkid, str) ==
  LET result == get_entry_for_mount_point_detect_fs(tab, blkid, str)
  IN IF result # 0 \/ str = Root THEN result
     ELSE LET next == TrimPrefix(str)
          IN IF next = NULL THEN 0 ELSE VolumeForPathFrom(tab, blkid, next)

volume_for_path(tab, blkid, path) ==
  IF path = NULL \/ path = <<>> THEN 0 ELSE VolumeForPathFrom(tab, blkid, path)

\* volume_for_label: the first record whose label is set and equals label.
volume_for_label(tab, label) ==
  LET S == {i \in 1..Len(tab) : tab[i].label # NULL /\ tab[i].label = label}
  IN IF S = {} THEN 0 ELSE CHOOSE i \in S : \A j \in S : i <= j

(***************************************************************************)
(* Results and observations.  An operation yields the SET of its possible  *)
(* results, one per outcome of the scans, OS calls and child processes it  *)
(* reaches: [ret, mounted, calls, vol, length].  calls lists, in order,    *)
(* what the operation asked of the OS; st is 0 for success and -1 for      *)
(* failure, and the wait status for a child process.                       *)
(***************************************************************************)
Call(c, vol, at, arg, st) == [c |-> c, vol |-> vol, at |-> at, arg |-> arg, st |-> st]

Result(ret, mnt, calls, vol, len) ==
  [ret |-> ret, mounted |-> mnt, calls |-> calls, vol |-> vol, length |-> len]

\* A plausible slip: no volume is taken for the ramdisk.
NeverRamdisk(v) == FALSE

IsRamdisk(v) == v.fs_type = "ramdisk"

\* fs_mgr_is_voldmanaged(v)
fs_mgr_is_voldmanaged(v) == v.voldmanaged

\* The types ensure_path_mounted_at hands to mount(2).
MountableFs(fs) == fs \in {"ext4", "squashfs", "vfat", "f2fs"}

\* A plausible slip: the mount table is not consulted before mounting.
AlwaysRemount_AlreadyMounted(v, snapshot, mount_point) == FALSE

\* The "already mounted" shortcut of ensure_path_mounted_at.
AlreadyMounted(v, snapshot, mount_point) ==
  ~fs_mgr_is_voldmanaged(v) /\ mount_point \in snapshot

\* ensure_path_mounted_at(path, mount_point); mount_point is NULL when none
\* is given.
ensure_path_mounted_at(tab, blkid, mnt, path, mount_point) ==
  LET v == volume_for_path(tab, blkid, path)
  IN IF v = 0 THEN {Result(-1, mnt, <<>>, 0, <<>>)}
     ELSE IF IsRamdisk(tab[v]) THEN {Result(0, mnt, <<>>, v, <<>>)}
     ELSE
       LET mp == IF mount_point = NULL THEN tab[v].mount_point ELSE mount_point
           scanned == <<Call("scan", v, NULL, <<>>, 0)>>
           mkdirs == Call("fs_mkdirs", v, mp, <<>>, 0)
       IN \* scan_mounted_volumes() fails
          {Result(-1, mnt, <<Call("scan", v, NULL, <<>>, -1)>>, v, <<>>)}
          \cup
          \* scan_mounted_volumes() succeeds: the snapshot is mnt
          (IF AlreadyMounted(tab[v], mnt, mp)
           THEN {Result(0, mnt, scanned, v, <<>>)}
           ELSE IF MountableFs(tab[v].fs_type)
           THEN {Result(0, mnt \cup {mp},
                        scanned \o <<mkdirs, Call("mount", v, mp, <<>>, 0)>>, v, <<>>),
                 Result(-1, mnt,
                        scanned \o <<mkdirs, Call("mount", v, mp, <<>>, -1)>>, v, <<>>)}
           ELSE {Result(-1, mnt, scanned \o <<mkdirs>>, v, <<>>)})

\* ensure_volume_mounted(v), v not null
ensure_volume_mounted(tab, blkid, mnt, v) ==
  ensure_path_mounted_at(tab, blkid, mnt, tab[v].mount_point, NULL)

\* ensure_path_mounted(path)
ensure_path_mounted(tab, blkid, mnt, path) ==
  ensure_path_mounted_at(tab, blkid, mnt, path, NULL)

\* A plausible slip: the OS unmount is issued whether or not the scan found
\* the mount point.
NoLookup_ensure_volume_unmounted(tab, mnt, v, detach) ==
  IF v = 0 THEN {Result(-1, mnt, <<>>, 0, <<>>)}
  ELSE IF IsRamdisk(tab[v]) THEN {Result(-1, mnt, <<>>, v, <<>>)}
  ELSE
    LET mp == tab[v].mount_point
        scanned == <<Call("scan", v, NULL, <<>>, 0)>>
        umount == IF detach THEN "umount_detach" ELSE "umount"
    IN {Result(-1, mnt, <<Call("scan", v, NULL, <<>>, -1)>>, v, <<>>)}
       \cup
       {Result(0, mnt \ {mp}, scanned \o <<Call(umount, v, mp, <<>>, 0)>>, v, <<>>),
        Result(-1, mnt, scanned \o <<Call(umount, v, mp, <<>>, -1)>>, v, <<>>)}

\* ensure_volume_unmounted(v, detach); v = 0 is the null volume.
ensure_volume_unmounted(tab, mnt, v, detach) ==
  IF v = 0 THEN {Result(-1, mnt, <<>>, 0, <<>>)}
  ELSE IF IsRamdisk(tab[v]) THEN {Result(-1, mnt, <<>>, v, <<>>)}
  ELSE
    LET mp == tab[v].mount_point
        scanned == <<Call("scan", v, NULL, <<>>, 0)>>
        umount == IF detach THEN "umount_detach" ELSE "umount"
    IN {Result(-1, mnt, <<Call("scan", v, NULL, <<>>, -1)>>, v, <<>>)}
       \cup
       (IF mp \notin mnt
        THEN {Result(0, mnt, scanned, v, <<>>)}
        ELSE {Result(0, mnt \ {mp}, scanned \o <<Call(umount, v, mp, <<>>, 0)>>, v, <<>>),
              Result(-1, mnt, scanned \o <<Call(umount, v, mp, <<>>, -1)>>, v, <<>>)})

\* memcmp(path, "/storage/", 9) == 0.  A path shorter than the prefix differs
\* from it at its terminating NUL at the latest, so the comparison is nonzero.
HasStoragePrefix(path) ==
  Len(path) >= Len(StoragePrefix) /\ SubSeq(path, 1, Len(StoragePrefix)) = StoragePrefix

\* The label of a /storage/ path: the characters after the prefix up to the
\* next '/' (strchr), or to the end of the path.
StorageLabel(path) ==
  LET p == Len(StoragePrefix) + 1
      Q == {i \in p..Len(path) : path[i] = "/"}
      q == IF Q = {} THEN Len(path) + 1 ELSE CHOOSE i \in Q : \A j \in Q : i <= j
  IN SubSeq(path, p, q - 1)

\* A plausible slip: every path is resolved as a path, /storage/ or not.
ByPath_UnmountTarget(tab, blkid, path) == volume_for_path(tab, blkid, path)

\* The volume ensure_path_unmounted acts on.
UnmountTarget(tab, blkid, path) ==
  IF HasStoragePrefix(path)
  THEN volume_for_label(tab, StorageLabel(path))
  ELSE volume_for_path(tab, blkid, path)

ensure_path_unmounted(tab, blkid, mnt, path, detach) ==
  ensure_volume_unmounted(tab, mnt, UnmountTarget(tab, blkid, path), detach)

(***************************************************************************)
(* The format engine.                                                      *)
(***************************************************************************)
kBlockSize == 4096
kSectorSize == 4096
CRYPT_FOOTER_OFFSET == 16384

\* What fstat and the block-device size query report for an open descriptor.
Stat(ok, kind, size) == [ok |-> ok, kind |-> kind, size |-> size]
Sizes == {512, 2048, 20480}
StatResults ==
  {Stat(FALSE, "none", 0), Stat(TRUE, "chr", 0)}
    \cup {Stat(TRUE, "blk", n) : n \in Sizes}
    \cup {Stat(TRUE, "reg", n) : n \in Sizes \ {2048}}

\* get_file_size(fd, reserve_len).  Every size of the model is far below
\* INT64_MAX, so the upper-limit test of the block-device branch is never
\* taken and the regular-file subtraction does not wrap.
get_file_size(st, reserve_len) ==
  IF ~st.ok THEN 0
  ELSE IF st.kind = "reg" THEN st.size - reserve_len
  ELSE IF st.kind = "blk"
       THEN IF st.size < reserve_len THEN 0 ELSE st.size - reserve_len
  ELSE 0

\* sys/wait.h on Linux: a wait status is (exit code * 256) after a normal
\* exit and the signal number after a kill.
WIFEXITED(status) == status % 128 = 0
WEXITSTATUS(status) == (status \div 256) % 256
WaitStatuses == {0, 256, 9}     \* exit(0), exit(1) (also a failed execv), SIGKILL

\* exec_cmd: the value returned for a child that ended with wait status.
exec_cmd(status) == WEXITSTATUS(status)

\* The key-location wipe (step 6): the set of [ret, calls].
KeyLocIsPath(v) == v.key_loc # NULL /\ Len(v.key_loc) > 0 /\ v.key_loc[1] = "/"

WipeKeyLoc(tab, v, calls) ==
  IF KeyLocIsPath(tab[v])
  THEN {[ret |-> -1, calls |-> calls \o <<Call("open", v, tab[v].key_loc, <<>>, -1)>>],
        [ret |-> 0, calls |-> calls \o <<Call("open", v, tab[v].key_loc, <<>>, 0),
                                         Call("wipe", v, tab[v].key_loc, <<>>, 0)>>]}
  ELSE {[ret |-> 0, calls |-> calls]}

\* A plausible slip: the footer reservation is used whatever the length.
FooterOnly_ReserveLen(v) == CRYPT_FOOTER_OFFSET

\* The reserve handed to get_file_size: v->length ? -v->length : CRYPT_FOOTER_OFFSET
ReserveLen(v) == IF v.length # 0 THEN -v.length ELSE CRYPT_FOOTER_OFFSET

\* if (v->length > 0)
UsesExplicitLength(v) == v.length > 0

\* else if (v->length < 0 || (key_loc != nullptr && strcmp(key_loc, "footer") == 0))
NeedsDeviceSize(v) == v.length < 0 \/ (v.key_loc # NULL /\ v.key_loc = Footer)

\* The length computation (step 7): the set of [ret, calls, length].  The
\* open of the block device records the stat result it went on to read.
ComputeLength(tab, v, calls) ==
  IF UsesExplicitLength(tab[v])
  THEN {[ret |-> 0, calls |-> calls, length |-> <<tab[v].length>>]}
  ELSE IF NeedsDeviceSize(tab[v])
  THEN {[ret |-> -1, length |-> <<>>,
         calls |-> calls \o <<Call("open", v, tab[v].blk_device, <<>>, -1)>>]}
       \cup
       {LET len == get_file_size(st, ReserveLen(tab[v]))
        IN [ret |-> IF len <= 0 THEN -1 ELSE 0, length |-> <<len>>,
            calls |-> calls \o <<Call("open", v, tab[v].blk_device, <<st>>, 0)>>]
        : st \in StatResults}
  ELSE {[ret |-> 0, calls |-> calls, length |-> <<0>>]}

\* The size argument of each formatter: a sequence of at most one count.
Mke2fsCount(length) == IF length # 0 THEN <<length \div kBlockSize>> ELSE <<>>
MakeF2fsCount(length) == IF length >= kSectorSize THEN <<length \div kSectorSize>> ELSE <<>>

\* The dispatch to the external tools (steps 9 and 10) for a volume of type
\* ext4 or f2fs: the formatter, then the loader when a directory was given
\* and the formatter's result was 0.
RunTools(tab, v, directory, mnt, calls, length) ==
  LET ext4 == tab[v].fs_type = "ext4"
      mkfs == IF ext4 THEN "mke2fs" ELSE "mkfs.f2fs"
      load == IF ext4 THEN "e2fsdroid" ELSE "sload.f2fs"
      count == IF ext4 THEN Mke2fsCount(length) ELSE MakeF2fsCount(length)
      dev == tab[v].blk_device
  IN UNION {
       LET c1 == calls \o <<Call(mkfs, v, dev, count, s1)>>
       IN IF exec_cmd(s1) = 0 /\ directory # NULL
          THEN {Result(IF exec_cmd(s2) # 0 THEN -1 ELSE 0, mnt,
                       c1 \o <<Call(load, v, dev, <<>>, s2)>>, v, <<length>>)
                : s2 \in WaitStatuses}
          ELSE {Result(IF exec_cmd(s1) # 0 THEN -1 ELSE 0, mnt, c1, v, <<length>>)}
       : s1 \in WaitStatuses}

\* format_volume from the type check on (lines 352 to 474), the volume being
\* unmounted as far as ensure_path_unmounted could tell.
FormatUnmounted(tab, v, directory, mnt, calls) ==
  IF tab[v].fs_type # "ext4" /\ tab[v].fs_type # "f2fs"
  THEN {Result(-1, mnt, calls, v, <<>>)}
  ELSE UNION {
    IF w.ret # 0 THEN {Result(-1, mnt, w.calls, v, <<>>)}
    ELSE UNION {
      IF l.ret # 0 THEN {Result(-1, mnt, l.calls, v, l.length)}
      ELSE IF fs_mgr_is_voldmanaged(tab[v]) THEN {Result(-1, mnt, l.calls, v, l.length)}
      ELSE RunTools(tab, v, directory, mnt, l.calls, l.length[1])
      : l \in ComputeLength(tab, v, w.calls)}
    : w \in WipeKeyLoc(tab, v, calls)}

\* A plausible slip: the test that the path is the mount point is dropped.
AnyPath_FormatPathRejected(v, volume) == FALSE

\* strcmp(v->mount_point, volume) != 0
FormatPathRejected(v, volume) == v.mount_point # volume

\* format_volume(volume, directory); directory is NULL when none is given.
format_volume(tab, blkid, mnt, volume, directory) ==
  LET v == volume_for_path(tab, blkid, volume)
  IN IF v = 0 THEN {Result(-1, mnt, <<>>, 0, <<>>)}
     ELSE IF IsRamdisk(tab[v]) THEN {Result(-1, mnt, <<>>, v, <<>>)}
     ELSE IF FormatPathRejected(tab[v], volume) THEN {Result(-1, mnt, <<>>, v, <<>>)}
     ELSE UNION {
       IF u.ret # 0 THEN {Result(-1, u.mounted, u.calls, v, <<>>)}
       ELSE FormatUnmounted(tab, v, directory, u.mounted, u.calls)
       : u \in ensure_path_unmounted(tab, blkid, mnt, volume, FALSE)}

(***************************************************************************)
(* The install-mount orchestrator.                                         *)
(***************************************************************************)
\* The loop of setup_install_mounts from record i on.  Each call of
\* ensure_path_mounted or ensure_volume_unmounted is listed before the OS
\* calls it made, with its return value.
\* A plausible slip: every unmount of setup_install_mounts detaches.
DetachAll_SetupDetach(mp) == TRUE

\* A plausible slip: /cache is not among the mount points to mount.
TmpOnly_SetupMounts(mp) == mp = Tmp

\* The mount points setup_install_mounts mounts.
SetupMounts(mp) == mp = Tmp \/ mp = Cache

\* detach of setup_install_mounts: strcmp(v->mount_point, "/data") == 0
SetupDetach(mp) == mp = Data

RECURSIVE SetupFrom(_, _, _, _, _)
SetupFrom(tab, blkid, i, mnt, calls) ==
  IF i > Len(tab) THEN {Result(0, mnt, calls, 0, <<>>)}
  ELSE
    LET mp == tab[i].mount_point
    IN IF mp = Root THEN SetupFrom(tab, blkid, i + 1, mnt, calls)
       ELSE IF SetupMounts(mp)
       THEN UNION {
         LET c == calls \o <<Call("ensure_path_mounted", i, mp, <<>>, r.ret)>> \o r.calls
         IN IF r.ret # 0 THEN {Result(-1, r.mounted, c, 0, <<>>)}
            ELSE SetupFrom(tab, blkid, i + 1, r.mounted, c)
         : r \in ensure_path_mounted(tab, blkid, mnt, mp)}
       ELSE UNION {
         LET detach == SetupDetach(mp)
             c == calls \o <<Call("ensure_volume_unmounted", i, mp, <<detach>>, r.ret)>>
                    \o r.calls
         IN IF r.ret # 0 THEN {Result(-1, r.mounted, c, 0, <<>>)}
            ELSE SetupFrom(tab, blkid, i + 1, r.mounted, c)
         : r \in ensure_volume_unmounted(tab, mnt, i, SetupDetach(mp))}

\* A plausible slip: the table is walked without the test that it is loaded.
Unchecked_setup_install_mounts(fs, blkid, mnt) ==
  SetupFrom(fs.recs, blkid, 1, mnt, <<>>)

\* setup_install_mounts()
setup_install_mounts(fs, blkid, mnt) ==
  IF fs = NoFstab THEN {Result(-1, mnt, <<>>, 0, <<>>)}
  ELSE SetupFrom(fs.recs, blkid, 1, mnt, <<>>)

(***************************************************************************)
(* Loading the table.                                                      *)
(***************************************************************************)
RamdiskDev == <<"r", "a", "m", "d", "i", "s", "k">>

\* fs_mgr_add_entry(fstab, mount_point, fs_type, blk_device): a record with
\* every other field zero.
fs_mgr_add_entry(tab, mp, fs, dev) ==
  Append(tab, Volume(mp, fs, dev, 0, NULL, NULL, FALSE))

\* The records of fake_fstab after the loop over records 1..i: a record is
\* added for a mount point not yet present when its type is the type of the
\* entry detection resolves the mount point to.
RECURSIVE FakeFstab(_, _, _)
FakeFstab(tab, blkid, i) ==
  IF i = 0 THEN <<>>
  ELSE LET fake == FakeFstab(tab, blkid, i - 1)
           v == tab[i]
       IN IF fs_mgr_get_entry_for_mount_point(fake, v.mount_point) = 0
             /\ v.fs_type = tab[get_entry_for_mount_point_detect_fs(
                                  tab, blkid, v.mount_point)].fs_type
          THEN fs_mgr_add_entry(fake, v.mount_point, v.fs_type, v.blk_device)
          ELSE fake

\* The condition under which write_fstab_entry writes a line for v.
WritesFstabEntry(v) ==
  /\ v.fs_type \notin {"mtd", "emmc", "bml"}
  /\ ~fs_mgr_is_voldmanaged(v)
  /\ Len(v.blk_device) > 0 /\ v.blk_device[1] = "/"
  /\ Len(v.mount_point) > 0 /\ v.mount_point[1] = "/"

\* The lines written to /etc/fstab, as calls of write_fstab_entry that print.
RECURSIVE EtcFstabLines(_, _)
EtcFstabLines(fake, i) ==
  IF i > Len(fake) THEN <<>>
  ELSE (IF WritesFstabEntry(fake[i])
        THEN <<Call("write_fstab_entry", i, fake[i].mount_point,
                    <<fake[i].blk_device, fake[i].fs_type>>, 0)>>
        ELSE <<>>) \o EtcFstabLines(fake, i + 1)

(***************************************************************************)
(* The tables the fstab collaborator may return, and the arguments of the  *)
(* operations.                                                             *)
(***************************************************************************)
Dev(x) == <<"/", "d", "e", "v", "/", x>>
KeyDev == <<"/", "k", "e", "y">>
SdPath == StoragePrefix \o <<"s", "d">>
UsbPath == <<"/", "u", "s", "b">>
BootPath == <<"/", "b", "o", "o", "t">>
SdLabel == <<"s", "d">>
SeedDir == <<"/", "s", "e", "e", "d">>

CandidateList == <<
  Volume(Root, "ext4", Dev("a"), 0, NULL, NULL, FALSE),
  Volume(Cache, "ext4", Dev("b"), 0, NULL, NULL, FALSE),
  Volume(Cache, "f2fs", Dev("b"), 0, NULL, NULL, FALSE),
  Volume(Data, "f2fs", Dev("c"), -1024, KeyDev, NULL, FALSE),
  Volume(Data, "ext4", Dev("c"), 512, NULL, NULL, FALSE),
  Volume(SdPath, "ext4", Dev("d"), 0, Footer, NULL, FALSE),
  Volume(UsbPath, "ext4", Dev("e"), 0, KeyDev, SdLabel, TRUE),
  Volume(BootPath, "emmc", Dev("f"), 0, NULL, SdLabel, FALSE),
  Volume(Cache, "yaffs2", Dev("b"), 0, NULL, NULL, FALSE) >>

\* The collaborator's records: up to MaxVolumes of the candidates, in the
\* order of the list.
Tables ==
  UNION {{[i \in 1..k |-> CandidateList[s[i]]] :
            s \in {t \in [1..k -> 1..Len(CandidateList)] :
                     \A i, j \in 1..k : i < j => t[i] < t[j]}}
         : k \in 0..MaxVolumes}

\* What the signature probe may report ("none": no signature).
Signatures == {"none", "ext4", "f2fs", "vfat"}

\* During one operation the probe reports the same signature for the device
\* it is asked about.
Devices == {Dev(x) : x \in {"a", "b", "c", "d", "e", "f"}}
Blkid(sig) == [d \in Devices |-> sig]

MountPoints(tab) == {tab[i].mount_point : i \in 1..Len(tab)}

\* The mount points of the table that the OS mount table is tracked for.
Tracked(tab) == {tab[i].mount_point : i \in {j \in 1..Len(tab) : ~IsRamdisk(tab[j])}}

\* The paths given to the operations: the empty path, a path no mount point
\* but / owns, each mount point, a path below it, /cachex (which shares the
\* characters of /cache) and a /storage/ path.
OpPaths(tab) ==
  {<<>>, <<"/", "x">>, SdPath \o <<"/", "x">>}
    \cup MountPoints(tab)
    \cup {mp \o <<"/", "x">> : mp \in MountPoints(tab) \ {Root}}
    \cup {mp \o <<"x">> : mp \in MountPoints(tab) \cap {Cache}}

\* The mount point overrides given to ensure_path_mounted_at: none, or
\* another configured mount point when the path is a mount point itself.
Overrides(tab, path) ==
  {NULL} \cup (IF path \in Tracked(tab) THEN Tracked(tab) \ {path} ELSE {})

\* The results of an operation over every signature the probe may report.
OverSignatures(Op(_)) == UNION {Op(Blkid(sig)) : sig \in Signatures}

(***************************************************************************)
(* The state machine.                                                      *)
(***************************************************************************)
\* The observation of an operation: its arguments, the mount table it
\* started from, its result, whether it is the same call (operation and
\* volume) as the step before it, which returned 0 (again), and whether it
\* comes directly after another process undid what the call before it on the
\* same volume had done (undone).
Obs(op, path, argvol, mount_point, detach, directory, before, r) ==
  [op |-> op, path |-> path, argvol |-> argvol, mount_point |-> mount_point,
   detach |-> detach, directory |-> directory, before |-> before,
   ret |-> r.ret, calls |-> r.calls, vol |-> r.vol, length |-> r.length,
   again |-> FALSE, undone |-> FALSE]

Again(op, v) == last.op = op /\ last.argvol = v /\ last.ret = 0

\* The volume on which the call just observed, op, returned 0 and whose
\* mount point is mp (0 if there is none): the call a change of mp by
\* another process undoes.
Undoes(op, mp) ==
  IF last.op = op /\ last.ret = 0 /\ last.argvol # 0
  THEN IF fstab.recs[last.argvol].mount_point = mp THEN last.argvol ELSE 0
  ELSE 0

\* No operation to observe: none has run yet, the last one has returned to
\* its caller, or another process has changed the mount table since.
Quiet == Obs("none", NULL, 0, NULL, FALSE, NULL, {}, Result(0, {}, <<>>, 0, <<>>))
Quiescent == last = Quiet

Idle == /\ rpath = NULL /\ rstr = NULL /\ rsig = Blkid("none") /\ rpc = "idle"
        /\ rres = 0 /\ rlookups = 0

Init ==
  /\ fstab = NoFstab
  /\ mounted = {}
  /\ last = Quiet
  /\ Idle

ResolverUnchanged == UNCHANGED <<rpath, rstr, rsig, rpc, rres, rlookups>>

Loaded == fstab.set
Tab == fstab.recs

\* load_volume_table(): the collaborator returns nothing, or records to
\* which the /tmp entry is appended (which may fail); then /etc/fstab is
\* written if it can be opened.  The lines written are listed as calls.
Load ==
  /\ ~Loaded
  /\ \/ /\ fstab' = NoFstab
        /\ last' = Obs("load", NULL, 0, NULL, FALSE, NULL, mounted,
                       Result(-1, mounted, <<>>, 0, <<>>))
     \/ \E recs \in Tables, sig \in Signatures, fopenOk \in BOOLEAN :
          LET tab == fs_mgr_add_entry(recs, Tmp, "ramdisk", RamdiskDev)
              fake == FakeFstab(tab, Blkid(sig), Len(tab))
              lines == IF fopenOk THEN EtcFstabLines(fake, 1) ELSE <<>>
          IN /\ fstab' = [set |-> TRUE, recs |-> tab]
             /\ last' = Obs("load", NULL, 0, NULL, FALSE, NULL, mounted,
                            Result(0, mounted, lines, 0, <<>>))
  /\ UNCHANGED mounted
  /\ ResolverUnchanged

MountAt ==
  /\ Loaded
  /\ \E path \in OpPaths(Tab) :
       \E mp \in Overrides(Tab, path) :
         LET Op(blkid) == ensure_path_mounted_at(Tab, blkid, mounted, path, mp)
         IN \E r \in OverSignatures(Op) :
              /\ mounted' = r.mounted
              /\ last' = Obs("mountAt", path, 0, mp, FALSE, NULL, mounted, r)
  /\ UNCHANGED fstab
  /\ ResolverUnchanged

MountVolume ==
  /\ Loaded
  /\ \E v \in 1..Len(Tab) :
       LET Op(blkid) == ensure_volume_mounted(Tab, blkid, mounted, v)
       IN \E r \in OverSignatures(Op) :
            /\ mounted' = r.mounted
            /\ last' = [Obs("mountVolume", NULL, v, NULL, FALSE, NULL, mounted, r)
                          EXCEPT !.again = Again("mountVolume", v),
                                 !.undone = (last.op = "externalUnmount"
                                             /\ last.argvol = v)]
  /\ UNCHANGED fstab
  /\ ResolverUnchanged

Unmount ==
  /\ Loaded
  /\ \E path \in OpPaths(Tab), detach \in BOOLEAN :
       LET Op(blkid) == ensure_path_unmounted(Tab, blkid, mounted, path, detach)
       IN \E r \in OverSignatures(Op) :
            /\ mounted' = r.mounted
            /\ last' = Obs("unmount", path, 0, NULL, detach, NULL, mounted, r)
  /\ UNCHANGED fstab
  /\ ResolverUnchanged

UnmountVolume ==
  /\ Loaded
  /\ \E v \in 0..Len(Tab), detach \in BOOLEAN :
       \E r \in ensure_volume_unmounted(Tab, mounted, v, detach) :
         /\ mounted' = r.mounted
         /\ last' = [Obs("unmountVolume", NULL, v, NULL, detach, NULL, mounted, r)
                       EXCEPT !.again = Again("unmountVolume", v),
                              !.undone = (last.op = "externalMount"
                                          /\ last.argvol = v)]
  /\ UNCHANGED fstab
  /\ ResolverUnchanged

Format ==
  /\ Loaded
  /\ \E path \in OpPaths(Tab), directory \in {NULL, SeedDir} :
       LET Op(blkid) == format_volume(Tab, blkid, mounted, path, directory)
       IN \E r \in OverSignatures(Op) :
            /\ mounted' = r.mounted
            /\ last' = Obs("format", path, 0, NULL, FALSE, directory, mounted, r)
  /\ UNCHANGED fstab
  /\ ResolverUnchanged

SetupInstallMounts ==
  /\ LET Op(blkid) == setup_install_mounts(fstab, blkid, mounted)
     IN \E r \in OverSignatures(Op) :
          /\ mounted' = r.mounted
          /\ last' = Obs("setupInstallMounts", NULL, 0, NULL, FALSE, NULL, mounted, r)
  /\ UNCHANGED fstab
  /\ ResolverUnchanged

\* The operation returns to its caller, and what was observed is forgotten.
Return ==
  /\ ~Quiescent
  /\ last' = Quiet
  /\ UNCHANGED <<fstab, mounted>>
  /\ ResolverUnchanged

\* Another process mounts or unmounts one of the configured mount points.
ExternalMount ==
  /\ Loaded
  /\ \E mp \in Tracked(Tab) \ mounted :
       /\ mounted' = mounted \cup {mp}
       /\ last' = [Quiet EXCEPT !.op = "externalMount",
                                !.argvol = Undoes("unmountVolume", mp)]
  /\ UNCHANGED fstab
  /\ ResolverUnchanged

ExternalUnmount ==
  /\ Loaded
  /\ \E mp \in mounted :
       /\ mounted' = mounted \ {mp}
       /\ last' = [Quiet EXCEPT !.op = "externalUnmount",
                                !.argvol = Undoes("mountVolume", mp)]
  /\ UNCHANGED fstab
  /\ ResolverUnchanged

\* No operation of this program is being observed.
Settled == last.op \in {"none", "externalMount", "externalUnmount"}

\* The main specification: every operation, from every table and every mount
\* state, each started once the one before has returned.
Next ==
  \/ (Settled /\ Load)
  \/ (Settled /\ MountAt)
  \/ (Settled /\ MountVolume)
  \/ (Settled /\ Unmount)
  \/ (Settled /\ UnmountVolume)
  \/ (Settled /\ Format)
  \/ (Settled /\ SetupInstallMounts)
  \/ Return
  \/ ExternalMount
  \/ ExternalUnmount

Spec == Init /\ [][Next]_vars

\* The specification of calls in a row: ensure_volume_mounted and
\* ensure_volume_unmounted, one call directly after the other, with other
\* processes acting in between or not.
NextCalls ==
  \/ Load
  \/ MountVolume
  \/ UnmountVolume
  \/ ExternalMount
  \/ ExternalUnmount

SpecCalls == Init /\ [][NextCalls]_vars

(***************************************************************************)
(* Properties of the operations, stated on the observation of the last     *)
(* operation.                                                              *)
(***************************************************************************)
OsMount == {"mount"}
OsUnmount == {"umount", "umount_detach"}
KeyWipe == {"wipe"}
Formatters == {"mke2fs", "mkfs.f2fs"}

\* The calls of the last operation of the given kinds.
CallsOf(kinds) == {i \in 1..Len(last.calls) : last.calls[i].c \in kinds}

\* No scan and no OS call of the last operation failed.
NoCallFailed == \A i \in 1..Len(last.calls) : last.calls[i].st = 0

\* Every scan and every OS mount and unmount call of the last operation
\* succeeded.
MountCallsSucceeded ==
  \A i \in CallsOf({"scan", "fs_mkdirs"} \cup OsMount \cup OsUnmount) :
    last.calls[i].st = 0

\* The last operation is one of the mount, unmount and format operations and
\* setup_install_mounts, run on a loaded table.
Operated ==
  Loaded /\ last.op \in {"mountAt", "mountVolume", "unmount", "unmountVolume",
                         "format", "setupInstallMounts"}

\* C1: no operation issues an OS mount call, an OS unmount call, a
\* key-location wipe or a formatter for the volume whose mount point is "/",
\* and format("/") returns failure.
C1_RootNeverTouched ==
  Operated =>
    /\ \A i \in CallsOf(OsMount \cup OsUnmount \cup KeyWipe \cup Formatters) :
         Tab[last.calls[i].vol].mount_point # Root
    /\ (last.op = "format" /\ last.path = Root) => last.ret = -1

\* C2: for a volume of type ramdisk, in every mount-table state, mount
\* returns 0 and unmountVolume and format return -1, each without a scan, an
\* OS call, a key-location wipe or a tool, and the mount table is unchanged.
C2_RamdiskUntouched ==
  (Operated /\ last.op # "setupInstallMounts"
     /\ last.vol # 0 /\ Tab[last.vol].fs_type = "ramdisk") =>
    /\ last.calls = <<>>
    /\ mounted = last.before
    /\ last.op \in {"mountAt", "mountVolume"} => last.ret = 0
    /\ last.op \in {"unmount", "unmountVolume", "format"} => last.ret = -1

\* C2 witnesses: format of the ramdisk mount point failed with other volumes
\* mounted.
C2_Witness ==
  /\ Operated /\ last.op = "format" /\ last.path = Tmp
  /\ last.vol # 0 /\ Tab[last.vol].fs_type = "ramdisk"
  /\ last.ret = -1 /\ last.before # {}

\* C3: no operation issues an OS mount call, an OS unmount call, a
\* key-location wipe or a formatter for a vold-managed volume, and the mount
\* state of a vold-managed volume is the same after an operation as before.
C3_VoldNeverTouched ==
  Operated =>
    /\ \A i \in CallsOf(OsMount \cup OsUnmount \cup KeyWipe \cup Formatters) :
         ~Tab[last.calls[i].vol].voldmanaged
    /\ \A v \in 1..Len(Tab) :
         Tab[v].voldmanaged =>
           (Tab[v].mount_point \in mounted <=> Tab[v].mount_point \in last.before)

\* C4: whenever format(path) runs a formatter on the device of the volume it
\* resolved path to, the mount point of that volume is not in the mount
\* table.
C4_FormatsOnlyUnmounted ==
  (Operated /\ last.op = "format") =>
    \A i \in CallsOf(Formatters) :
      /\ last.calls[i].vol = last.vol
      /\ Tab[last.vol].mount_point \notin mounted

\* C7: format(path) returns -1 whenever path is not the mount point of the
\* volume it resolves to, a path below a mount point included, and then it
\* makes no call at all and leaves the mount table as it was.
C7_FormatNeedsMountPoint ==
  (Operated /\ last.op = "format"
     /\ (last.vol = 0 \/ Tab[last.vol].mount_point # last.path)) =>
    /\ last.ret = -1
    /\ last.calls = <<>>
    /\ mounted = last.before

\* C7 witnesses: format of a path below the mounted /cache failed.
C7_Witness ==
  /\ Operated /\ last.op = "format" /\ last.path = Cache \o <<"/", "x">>
  /\ last.vol # 0 /\ Tab[last.vol].mount_point = Cache
  /\ Cache \in last.before
  /\ last.ret = -1

\* The opens of the block device of the volume format resolved.
DeviceOpens ==
  {i \in CallsOf({"open"}) : last.calls[i].at = Tab[last.vol].blk_device}

\* C10: the length format computes.  For a volume length > 0 it is that
\* value and the device is not opened.  For a volume length < 0 it is the
\* size of the device or file minus -length, and for length 0 with key_loc
\* "footer" the size minus the footer reservation; in these two cases format
\* returns -1 and runs no formatter when the device cannot be opened or the
\* value is <= 0.  For length 0 with another key_loc it is 0 and the
\* formatter is given no size.
C10_ComputedLength ==
  (Operated /\ last.op = "format" /\ last.vol # 0) =>
    LET v == Tab[last.vol]
        footer == v.key_loc # NULL /\ v.key_loc = Footer
        reserve == IF v.length < 0 THEN -v.length ELSE CRYPT_FOOTER_OFFSET
    IN /\ v.length > 0 =>
            /\ DeviceOpens = {}
            /\ last.length \in {<<>>, <<v.length>>}
            /\ CallsOf(Formatters) # {} => last.length = <<v.length>>
       /\ (v.length < 0 \/ (v.length = 0 /\ footer)) =>
            /\ \A i \in DeviceOpens :
                 LET c == last.calls[i]
                 IN IF c.st # 0 THEN last.ret = -1 /\ CallsOf(Formatters) = {}
                    ELSE LET st == c.arg[1]
                             sized == st.ok /\ st.kind \in {"reg", "blk"}
                         IN IF sized /\ st.size - reserve > 0
                            THEN last.length = <<st.size - reserve>>
                            ELSE last.ret = -1 /\ CallsOf(Formatters) = {}
            /\ CallsOf(Formatters) # {} => DeviceOpens # {}
       /\ (v.length = 0 /\ ~footer) =>
            /\ DeviceOpens = {}
            /\ last.length \in {<<>>, <<0>>}
            /\ \A i \in CallsOf(Formatters) :
                 last.length = <<0>> /\ last.calls[i].arg = <<>>

\* C10 witnesses: a volume of length -1024 on a block device of 2048 bytes
\* was given to the formatter with the computed length 1024.
C10_Witness ==
  /\ Operated /\ last.op = "format" /\ last.vol # 0
  /\ Tab[last.vol].length = -1024
  /\ \E i \in DeviceOpens :
       last.calls[i].st = 0 /\ last.calls[i].arg = <<Stat(TRUE, "blk", 2048)>>
  /\ last.length = <<1024>>
  /\ CallsOf(Formatters) # {}

\* The path begins with /storage/, and the characters between that prefix
\* and the next '/' or the end of the path.
BeginsWithStorage(p) ==
  Len(p) >= 9 /\ SubSeq(p, 1, 9) = <<"/", "s", "t", "o", "r", "a", "g", "e", "/">>

SegmentAfterStorage(p) ==
  LET stop == {i \in 10..(Len(p) + 1) : i = Len(p) + 1 \/ p[i] = "/"}
      q == CHOOSE i \in stop : \A j \in stop : i <= j
  IN [i \in 1..(q - 10) |-> p[i + 9]]

\* C11: for a path that begins with /storage/, ensure_path_unmounted acts on
\* the first table entry whose label is the path segment after the prefix,
\* and returns -1 with no call when no entry has that label; every other
\* path is resolved by volume_for_path.
C11_StorageByLabel ==
  (Operated /\ last.op = "unmount") =>
    IF BeginsWithStorage(last.path)
    THEN LET S == {i \in 1..Len(Tab) : Tab[i].label = SegmentAfterStorage(last.path)}
         IN IF S = {}
            THEN last.vol = 0 /\ last.ret = -1 /\ last.calls = <<>>
                 /\ mounted = last.before
            ELSE /\ last.vol = CHOOSE i \in S : \A j \in S : i <= j
                 /\ \A i \in 1..Len(last.calls) : last.calls[i].vol = last.vol
                 /\ \A i \in CallsOf(OsUnmount) :
                      last.calls[i].at = Tab[last.vol].mount_point
    ELSE \E sig \in Signatures :
           last.vol = volume_for_path(Tab, Blkid(sig), last.path)

\* C11 witnesses: /storage/sd/x unmounted the volume labelled sd, mounted at
\* /usb, in a table that holds the mount point /storage/sd.
C11_Witness ==
  /\ Operated /\ last.op = "unmount" /\ last.path = SdPath \o <<"/", "x">>
  /\ SdPath \in MountPoints(Tab)
  /\ last.vol # 0 /\ Tab[last.vol].mount_point = UsbPath
  /\ CallsOf(OsUnmount) # {} /\ last.ret = 0
  /\ UsbPath \notin mounted

\* The calls of ensure_path_mounted and ensure_volume_unmounted that the
\* last setup_install_mounts made, in order.
IsSetupCall(c) == c.c \in {"ensure_path_mounted", "ensure_volume_unmounted"}
SetupCalls == SelectSeq(last.calls, IsSetupCall)

\* The table entries whose mount point is not "/", in table order.
NotRootEntry(i) == Tab[i].mount_point # Root
NotRootEntries == SelectSeq([i \in 1..Len(Tab) |-> i], NotRootEntry)

\* The last setup call at or before position i of the call list (0: none).
SetupCallBefore(i) ==
  LET S == {j \in 1..i : IsSetupCall(last.calls[j])}
  IN IF S = {} THEN 0 ELSE CHOOSE j \in S : \A k \in S : k <= j

\* C12: setup_install_mounts walks the table in order: nothing for "/",
\* ensure_path_mounted for /tmp and /cache and no other mount point,
\* ensure_volume_unmounted for every other one, with detach exactly for
\* /data.  It returns -1 at the first of these calls that fails, and nothing
\* is done to an entry after that one.
C12_SetupWalk ==
  (Operated /\ last.op = "setupInstallMounts") =>
    /\ Len(SetupCalls) <= Len(NotRootEntries)
    /\ \A j \in 1..Len(SetupCalls) :
         LET c == SetupCalls[j]
             mp == Tab[NotRootEntries[j]].mount_point
         IN /\ c.vol = NotRootEntries[j]
            /\ c.at = mp
            /\ c.c = "ensure_path_mounted" <=> mp \in {Tmp, Cache}
            /\ c.c = "ensure_volume_unmounted" => c.arg = <<mp = Data>>
            /\ j < Len(SetupCalls) => c.st = 0
    /\ last.ret = 0 =>
         /\ Len(SetupCalls) = Len(NotRootEntries)
         /\ \A j \in 1..Len(SetupCalls) : SetupCalls[j].st = 0
    /\ last.ret # 0 =>
         /\ last.ret = -1
         /\ SetupCalls # <<>>
         /\ SetupCalls[Len(SetupCalls)].st # 0
    /\ \A i \in CallsOf(OsMount \cup OsUnmount \cup {"scan", "fs_mkdirs"}) :
         /\ SetupCallBefore(i) # 0
         /\ Tab[last.calls[i].vol].mount_point = last.calls[SetupCallBefore(i)].at
         /\ last.calls[i].c \in OsMount =>
              last.calls[SetupCallBefore(i)].c = "ensure_path_mounted"
         /\ last.calls[i].c \in OsUnmount =>
              /\ last.calls[SetupCallBefore(i)].c = "ensure_volume_unmounted"
              /\ last.calls[i].c = "umount_detach" <=>
                   last.calls[i].at = Data

\* C12 witnesses: /cache was mounted, the unmount of the next entry failed,
\* and the entry after it was left alone.
C12_Witness ==
  /\ Operated /\ last.op = "setupInstallMounts" /\ last.ret = -1
  /\ Len(SetupCalls) = 2 /\ Len(NotRootEntries) = 3
  /\ SetupCalls[1].c = "ensure_path_mounted" /\ SetupCalls[1].at = Cache
  /\ SetupCalls[2].c = "ensure_volume_unmounted" /\ SetupCalls[2].st = -1
  /\ CallsOf(OsMount) # {} /\ CallsOf(OsUnmount) # {}

Loaders == {"e2fsdroid", "sload.f2fs"}

\* The child of call i ended by exit(code) / by exit(0).
ExitedWith(i, code) ==
  last.calls[i].st % 128 = 0 /\ (last.calls[i].st \div 256) % 256 = code
ExitedNonZero(i) == last.calls[i].st % 128 = 0 /\ ~ExitedWith(i, 0)

\* C13: in format_volume, a formatter that exits non-zero makes the call
\* return -1 and the loader is not run; the loader is run only when a
\* directory was given and the formatter exited with status 0; a loader
\* that exits non-zero makes the call return -1.
C13_ToolExitFatal ==
  (Operated /\ last.op = "format") =>
    /\ \A i \in CallsOf(Formatters) :
         ExitedNonZero(i) => last.ret = -1 /\ CallsOf(Loaders) = {}
    /\ \A j \in CallsOf(Loaders) :
         /\ last.directory # NULL
         /\ \E i \in CallsOf(Formatters) : i < j /\ ExitedWith(i, 0)
         /\ ExitedNonZero(j) => last.ret = -1

\* C14: after a load_volume_table that failed the table is unset, and
\* setup_install_mounts on an unset table returns -1 without a call; after
\* one that succeeded the table is the records of the fstab collaborator
\* followed by one entry /tmp of type ramdisk.
C14_LoadOutcome ==
  /\ (last.op = "load" /\ last.ret # 0) => fstab = NoFstab
  /\ (last.op = "setupInstallMounts" /\ fstab = NoFstab) =>
       last.ret = -1 /\ last.calls = <<>> /\ mounted = last.before
  /\ (last.op = "load" /\ last.ret = 0) =>
       /\ fstab.set /\ Len(fstab.recs) >= 1
       /\ SubSeq(fstab.recs, 1, Len(fstab.recs) - 1) \in Tables
       /\ LET t == fstab.recs[Len(fstab.recs)]
          IN t.mount_point = <<"/", "t", "m", "p">> /\ t.fs_type = "ramdisk"

\* C14 witnesses: setup_install_mounts failed on the unset table, the state
\* a failed load_volume_table leaves.
C14_Witness ==
  /\ fstab = NoFstab
  /\ last.op = "setupInstallMounts" /\ last.ret = -1 /\ last.calls = <<>>

\* C15: in ensure_path_mounted_at, ensure_volume_mounted,
\* ensure_path_unmounted and ensure_volume_unmounted every OS mount or
\* unmount call comes after a scan of the mount table that succeeded in the
\* same call, a failed scan gives -1 with no OS call, and whether the OS
\* call is made depends on the mount table as it is when the call starts:
\* an unmount is issued exactly when the mount point is mounted, and a mount
\* of a volume that is not vold-managed and of a type mount handles exactly
\* when the target is not mounted.
C15_ScanThenAct ==
  (Operated /\ last.op \in {"mountAt", "mountVolume", "unmount", "unmountVolume"}) =>
    LET scanned == \E j \in CallsOf({"scan"}) : last.calls[j].st = 0
    IN /\ \A i \in CallsOf(OsMount \cup OsUnmount) :
            \E j \in CallsOf({"scan"}) : j < i /\ last.calls[j].st = 0
       /\ (\E j \in CallsOf({"scan"}) : last.calls[j].st # 0) =>
            /\ last.ret = -1
            /\ CallsOf(OsMount \cup OsUnmount) = {}
            /\ mounted = last.before
       /\ (scanned /\ last.op \in {"unmount", "unmountVolume"}) =>
            (CallsOf(OsUnmount) # {} <=> Tab[last.vol].mount_point \in last.before)
       /\ (scanned /\ last.op \in {"mountAt", "mountVolume"}
             /\ ~Tab[last.vol].voldmanaged
             /\ Tab[last.vol].fs_type \in {"ext4", "squashfs", "vfat", "f2fs"}) =>
            LET target == IF last.mount_point = NULL
                          THEN Tab[last.vol].mount_point ELSE last.mount_point
            IN CallsOf(OsMount) # {} <=> target \notin last.before

\* C15 witnesses: ensure_volume_mounted mounted a volume, another process
\* unmounted it, and ensure_volume_mounted issued the OS mount again.
C15_Witness ==
  /\ Operated /\ last.op = "mountVolume" /\ last.undone
  /\ ~Tab[last.vol].voldmanaged
  /\ CallsOf(OsMount) # {} /\ last.ret = 0

\* C16: whenever format_volume returns -1 because of a precondition (no
\* volume for the path, a ramdisk, a path that is not the mount point, a
\* failed unmount, a type other than ext4 and f2fs, a vold-managed volume),
\* it has wiped no key location and run no formatter.
C16_ValidateFirst ==
  (Operated /\ last.op = "format" /\ last.ret = -1) =>
    LET v == Tab[last.vol]
        unmountFailed ==
          \/ last.calls = <<>>
          \/ \E i \in CallsOf({"scan"} \cup OsUnmount) : last.calls[i].st # 0
        rejectedAsVold ==
          /\ v.voldmanaged /\ NoCallFailed
          /\ \A i \in DeviceOpens : last.length # <<>> /\ last.length[1] > 0
    IN (\/ last.vol = 0
        \/ v.fs_type = "ramdisk"
        \/ v.mount_point # last.path
        \/ unmountFailed
        \/ v.fs_type \notin {"ext4", "f2fs"}
        \/ rejectedAsVold) =>
         CallsOf(KeyWipe \cup Formatters) = {}

\* C17 as stated: when setup_install_mounts returns 0, /cache is mounted if
\* it is configured and every configured mount point other than "/", /tmp
\* and /cache is not mounted; and it returns 0 when every scan and OS call
\* succeeds.
C17_SetupPostState ==
  (Operated /\ last.op = "setupInstallMounts") =>
    /\ last.ret = 0 =>
         /\ Cache \in MountPoints(Tab) => Cache \in mounted
         /\ \A mp \in MountPoints(Tab) \ {Root, Tmp, Cache} : mp \notin mounted
    /\ MountCallsSucceeded => last.ret = 0

\* The types ensure_path_mounted succeeds on when its calls succeed.
Handled == {"ramdisk", "ext4", "squashfs", "vfat", "f2fs"}

\* The entries of mount point mp.
EntriesOf(mp) == {i \in 1..Len(Tab) : Tab[i].mount_point = mp}

\* C17 amended: when setup_install_mounts returns 0, /cache is mounted if it
\* is configured (or has an entry of type ramdisk, which counts as mounted)
\* and every configured mount point other than "/", /tmp and /cache is not
\* mounted.  It returns 0 when every scan and OS call succeeds,
\* each of /tmp and /cache has entries of type ramdisk or of the types mount
\* handles only, or is mounted and has no vold-managed entry, and no entry
\* of another mount point than "/" is a ramdisk.  It returns -1 when /cache
\* is configured, not mounted, and has entries of other types only.
C17_SetupPostStateAmended ==
  (Operated /\ last.op = "setupInstallMounts") =>
    /\ last.ret = 0 =>
         /\ Cache \in MountPoints(Tab) =>
              \/ Cache \in mounted
              \/ \E i \in EntriesOf(Cache) : Tab[i].fs_type = "ramdisk"
         /\ \A mp \in MountPoints(Tab) \ {Root, Tmp, Cache} : mp \notin mounted
    /\ (/\ MountCallsSucceeded
        /\ \A mp \in {Tmp, Cache} :
             \/ \A i \in EntriesOf(mp) : Tab[i].fs_type \in Handled
             \/ mp \in last.before /\ \A i \in EntriesOf(mp) : ~Tab[i].voldmanaged
        /\ \A i \in 1..Len(Tab) :
             Tab[i].mount_point \notin {Root, Tmp, Cache} =>
               Tab[i].fs_type # "ramdisk") =>
         last.ret = 0
    /\ (/\ EntriesOf(Cache) # {}
        /\ Cache \notin last.before
        /\ \A i \in EntriesOf(Cache) : Tab[i].fs_type \notin Handled) =>
         last.ret = -1

\* C17 witnesses: setup_install_mounts returned 0 having mounted /cache and
\* unmounted another mount point.
C17_Witness ==
  /\ Operated /\ last.op = "setupInstallMounts" /\ last.ret = 0
  /\ Cache \in mounted /\ Cache \notin last.before
  /\ \E mp \in last.before : mp \notin mounted

\* C18: with L the length format_volume computed, mke2fs is given a block
\* count exactly when L # 0 and mkfs.f2fs a sector count exactly when
\* L >= 4096, the count is L divided by 4096 rounded down, every count given
\* is at least 1, and no count is given when L is 0.
C18_SizeArgument ==
  (Operated /\ last.op = "format") =>
    \A i \in CallsOf(Formatters) :
      LET L == last.length[1]
          count == last.calls[i].arg
      IN /\ last.calls[i].c = "mke2fs" => (count # <<>> <=> L # 0)
         /\ last.calls[i].c = "mkfs.f2fs" => (count # <<>> <=> L >= 4096)
         /\ count # <<>> => count = <<L \div 4096>> /\ count[1] >= 1
         /\ L = 0 => count = <<>>

\* C19: format_volume returns 0 only if every tool it ran ended by exit(0),
\* and the loader is not run after a formatter that ended in another way.
C19_SuccessNeedsCleanExit ==
  (Operated /\ last.op = "format") =>
    /\ last.ret = 0 =>
         \A i \in CallsOf(Formatters \cup Loaders) : ExitedWith(i, 0)
    /\ \A i \in CallsOf(Formatters) :
         ~ExitedWith(i, 0) => last.ret = -1 /\ CallsOf(Loaders) = {}

(***************************************************************************)
(* Properties of calls in a row (SpecCalls).                               *)
(***************************************************************************)
\* The last call was made for a configured volume other than the ramdisk and
\* the volume mounted at "/".
OnOrdinaryVolume ==
  /\ last.argvol # 0
  /\ Tab[last.argvol].fs_type # "ramdisk"
  /\ Tab[last.argvol].mount_point # Root

\* C5: for every configured volume other than the ramdisk and root and every
\* mount state, ensure_volume_unmounted returns 0 when the scan and the OS
\* unmount do not fail, and called again directly after a call that returned
\* 0 it finds the mount point absent and issues no OS unmount.
C5_UnmountTwice ==
  (Loaded /\ last.op = "unmountVolume" /\ OnOrdinaryVolume /\ NoCallFailed) =>
    /\ last.ret = 0
    /\ last.again =>
         /\ Tab[last.argvol].mount_point \notin last.before
         /\ CallsOf(OsUnmount) = {}
         /\ mounted = last.before

\* C5 witnesses: the second of two calls in a row on a volume that the first
\* call had to unmount.
C5_Witness ==
  /\ Loaded /\ last.op = "unmountVolume" /\ OnOrdinaryVolume /\ NoCallFailed
  /\ last.again /\ last.ret = 0
  /\ CallsOf(OsUnmount) = {}
  /\ last.before # {}

\* C6 as stated: for every configured volume other than the ramdisk and root
\* and every mount state, ensure_volume_mounted returns 0 when the scan and
\* the OS mount do not fail, and called again directly after a call that
\* returned 0 it issues no OS mount.
C6_MountTwice ==
  (Loaded /\ last.op = "mountVolume" /\ OnOrdinaryVolume /\ NoCallFailed) =>
    /\ last.ret = 0
    /\ last.again => CallsOf(OsMount) = {}

\* C6 amended: for every configured volume other than the ramdisk and root
\* and every mount state, ensure_volume_mounted returns 0 when the type of
\* the entry it resolves to is ext4, squashfs, vfat or f2fs and the scan and
\* the OS mount do not fail, and returns -1 for every other type unless the
\* mount point is already mounted.  Called again directly after a call that
\* returned 0, it issues no OS mount and leaves the mount table alone when
\* the entry is not vold-managed, and issues the OS mount once more when the
\* entry is vold-managed.
C6_MountTwiceAmended ==
  (Loaded /\ last.op = "mountVolume" /\ OnOrdinaryVolume /\ last.vol # 0) =>
    LET r == Tab[last.vol]
        mountable == r.fs_type \in {"ext4", "squashfs", "vfat", "f2fs"}
        mp == Tab[last.argvol].mount_point
        scanned == \E i \in CallsOf({"scan"}) : last.calls[i].st = 0
    IN /\ (mountable /\ NoCallFailed) => last.ret = 0
       /\ (~mountable /\ (mp \notin last.before \/ r.voldmanaged)) => last.ret = -1
       /\ (last.again /\ scanned /\ ~r.voldmanaged) =>
            /\ last.ret = 0
            /\ CallsOf(OsMount) = {}
            /\ mounted = last.before
       /\ (last.again /\ scanned /\ r.voldmanaged /\ mountable) =>
            Cardinality(CallsOf(OsMount)) = 1

\* C6 witnesses: the second of two calls in a row on a volume that the first
\* call mounted, and that is not vold-managed.
C6_Witness ==
  /\ Loaded /\ last.op = "mountVolume" /\ OnOrdinaryVolume /\ last.vol # 0
  /\ ~Tab[last.vol].voldmanaged
  /\ last.again /\ last.ret = 0 /\ NoCallFailed
  /\ CallsOf(OsMount) = {}
  /\ Tab[last.argvol].mount_point \in last.before

(***************************************************************************)
(* The resolver specification: volume_for_path run step by step, and       *)
(* get_entry_for_mount_point_detect_fs, on every short path over the       *)
(* characters '/' and 'a' and on tables of short mount points.             *)
(***************************************************************************)
ResolveCandidateList == <<
  Volume(Root, "emmc", Dev("a"), 0, NULL, NULL, FALSE),
  Volume(<<"/", "a">>, "emmc", Dev("a"), 0, NULL, NULL, FALSE),
  Volume(<<"/", "a">>, "ext4", Dev("a"), 0, NULL, NULL, FALSE),
  Volume(<<"/", "a">>, "f2fs", Dev("b"), 0, NULL, NULL, FALSE),
  Volume(<<"/", "a">>, "ext4", Dev("b"), 0, NULL, NULL, FALSE),
  Volume(<<"/", "a", "/", "a">>, "vfat", Dev("b"), 0, NULL, NULL, FALSE),
  Volume(<<"/", "a", "a">>, "f2fs", Dev("a"), 0, NULL, NULL, FALSE) >>

ResolveTables ==
  UNION {{[i \in 1..k |-> ResolveCandidateList[s[i]]] :
            s \in {t \in [1..k -> 1..Len(ResolveCandidateList)] :
                     \A i, j \in 1..k : i < j => t[i] < t[j]}}
         : k \in 0..MaxResolveVolumes}

ResolvePaths == UNION {[1..n -> {"/", "a"}] : n \in 0..MaxPathLen}

\* The probe may report a different signature for each of the two devices.
ResolveBlkids ==
  {[d \in Devices |-> IF d = Dev("a") THEN s1 ELSE s2] :
     s1, s2 \in {"none", "ext4", "f2fs"}}

\* The table, the path and the probe are drawn here; the actions apply the
\* resolver to them.
InitResolve ==
  /\ fstab \in {[set |-> TRUE, recs |-> t] : t \in ResolveTables}
  /\ mounted = {}
  /\ last = Quiet
  /\ rpath \in ResolvePaths
  /\ rsig \in ResolveBlkids
  /\ rstr = NULL
  /\ rpc = "idle"
  /\ rres = 0
  /\ rlookups = 0

MainUnchanged == UNCHANGED <<fstab, mounted, last>>

\* volume_for_path(rpath) is called: lines 158 and 159.
ResolveStart ==
  /\ rpc = "idle"
  /\ rstr' = rpath
  /\ rpc' = IF rpath = <<>> THEN "done" ELSE "loop"
  /\ UNCHANGED <<rpath, rsig, rres, rlookups>>
  /\ MainUnchanged

\* One iteration of the while loop: lines 161 to 171.
ResolveStep ==
  /\ rpc = "loop"
  /\ LET result == get_entry_for_mount_point_detect_fs(Tab, rsig, rstr)
         next == TrimPrefix(rstr)
     IN /\ rlookups' = rlookups + 1
        /\ IF result # 0 \/ rstr = Root
           THEN rpc' = "done" /\ rres' = result /\ rstr' = rstr
           ELSE IF next = NULL
           THEN rpc' = "done" /\ rres' = 0 /\ rstr' = rstr
           ELSE rpc' = "loop" /\ rres' = 0 /\ rstr' = next
  /\ UNCHANGED <<rpath, rsig>>
  /\ MainUnchanged

\* get_entry_for_mount_point_detect_fs(rpath) is called on its own.
DetectEntry ==
  /\ rpc = "idle"
  /\ rstr' = rpath
  /\ rres' = get_entry_for_mount_point_detect_fs(Tab, rsig, rpath)
  /\ rpc' = "detect"
  /\ UNCHANGED <<rpath, rsig, rlookups>>
  /\ MainUnchanged

NextResolve == ResolveStart \/ ResolveStep \/ DetectEntry

SpecResolve == InitResolve /\ [][NextResolve]_vars

(***************************************************************************)
(* Properties of the resolver (SpecResolve).                               *)
(***************************************************************************)
\* The path and its ancestor directories: the path, what stands before each
\* of its '/' characters, and "/" for what stands before the leading one.
Ancestors(p) ==
  {p} \cup {SubSeq(p, 1, i - 1) : i \in {j \in 2..Len(p) : p[j] = "/"}}
      \cup {Root}

\* Those of them that are configured mount points.
ConfiguredAncestors(p) == Ancestors(p) \cap MountPoints(Tab)

Longest(S) == CHOOSE m \in S : \A n \in S : Len(n) <= Len(m)

\* C8: for a non-empty absolute path, volume_for_path returns what it returns
\* for the longest of the path and its ancestor directories that is a
\* configured mount point, an entry of that mount point; it returns no
\* volume when none of them is configured and when the path is empty.
C8_LongestConfiguredAncestor ==
  (rpc = "done" /\ (rpath = <<>> \/ rpath[1] = "/")) =>
    IF rpath = <<>> \/ ConfiguredAncestors(rpath) = {}
    THEN rres = 0
    ELSE LET m == Longest(ConfiguredAncestors(rpath))
         IN /\ rres # 0
            /\ Tab[rres].mount_point = m
            /\ rres = volume_for_path(Tab, rsig, m)

\* C8 witnesses: /aa/a resolved to the entry of "/" in a table that also
\* holds /a, whose characters /aa/a begins with.
C8_Witness ==
  /\ rpc = "done" /\ rpath = <<"/", "a", "a", "/", "a">>
  /\ rres # 0 /\ Tab[rres].mount_point = Root
  /\ <<"/", "a">> \in MountPoints(Tab)
  /\ rlookups > 2

\* C9: get_entry_for_mount_point_detect_fs returns the first entry e for the
\* mount point when the type of e is none of ext4, f2fs, vfat or the probe
\* of e's device finds no signature; otherwise the first entry for the mount
\* point, from e on, whose type is the signature found, and e when no entry
\* for the mount point has that type.
C9_DetectedEntry ==
  rpc = "detect" =>
    LET E == {i \in 1..Len(Tab) : Tab[i].mount_point = rpath}
    IN IF E = {} THEN rres = 0
       ELSE LET e == CHOOSE i \in E : \A j \in E : i <= j
                sig == rsig[Tab[e].blk_device]
                M == {i \in E : Tab[i].fs_type = sig}
            IN IF Tab[e].fs_type \notin {"ext4", "f2fs", "vfat"} \/ sig = "none"
               THEN rres = e
               ELSE IF M = {} THEN rres = e
               ELSE rres = CHOOSE i \in M : \A j \in M : i <= j

\* C9 witnesses: the first entry is ext4, the signature found is f2fs and the
\* second entry for the mount point is f2fs: the second entry is returned.
C9_Witness ==
  /\ rpc = "detect" /\ Len(Tab) >= 2 /\ rres = 2
  /\ Tab[1].mount_point = rpath /\ Tab[2].mount_point = rpath
  /\ Tab[1].fs_type = "ext4" /\ Tab[2].fs_type = "f2fs"
  /\ rsig[Tab[1].blk_device] = "f2fs"

\* C20: volume_for_path ends on every path.  Every turn of the loop that
\* does not return replaces the candidate by a strictly shorter one that is
\* not empty, after one more lookup; so the lookups made plus the characters
\* of the candidate never exceed the characters of the path, and the lookups
\* made are at most the characters of the path plus one.
C20_LookupsBounded ==
  /\ [](/\ rpc = "loop" => Len(rstr) >= 1 /\ rlookups + Len(rstr) <= Len(rpath)
        /\ rpc \in {"loop", "done"} => rlookups <= Len(rpath) + 1)
  /\ [][(rpc = "loop" /\ rpc' = "loop") =>
          /\ Len(rstr') < Len(rstr)
          /\ rlookups' = rlookups + 1]_vars

\* C20 witnesses: the path /// took three lookups, ///, // and /.
C20_Witness ==
  /\ rpc = "done" /\ rpath = <<"/", "/", "/">>
  /\ rstr = Root /\ rlookups = 3

====
